---- MODULE Spec2Model ----
(***************************************************************************)
(* Model of src/src/model/model.py: the RandLA-Net variant with            *)
(* hierarchical auxiliary supervision and a self-enhancement loss.         *)
(*                                                                         *)
(* Tensors are nested functions over 0-based index ranges, so a tensor of  *)
(* shape (B, N, C) is [0..B-1 -> [0..N-1 -> [0..C-1 -> Int]]].             *)
(* Index arithmetic (Tile, reshape, GatherD, transpose, ReduceMax) is      *)
(* modelled element by element, in the order the code applies it.          *)
(* Feature maps that only pass through learned layers (convolutions,       *)
(* batch norm, dense) are tracked by their shape <<B, d, N, K>>; the       *)
(* outputs of the learned heads that reach a loss are integer tensors      *)
(* determined by a weight seed.  Losses are fixed-point numbers in units   *)
(* of 1/Scale.                                                             *)
(***************************************************************************)
EXTENDS Integers, Sequences, FiniteSets, TLC

VARIABLES
    LossBase,             \* what the name LossBase resolves to while model.py is imported
    args,                 \* arguments of the function under call (pure-function harness)
    ret,                  \* its return value, NoRet before the call returns
    step,                 \* "import", "NameError", "imported", then the position
                          \* inside the call
    inp,                  \* the arguments of RandLAWithLoss.construct and the network weights
    feature,              \* RandLANet.construct: current feature map (shape)
    multihot_labels,      \* RandLANet.construct: list of per-level multi-hot labels
    f_stack,              \* RandLANet.construct: encoder feature maps (shapes)
    supervised_features,  \* RandLANet.construct: list of (B, N, 13) tensors
    se_features_list,     \* RandLANet.construct: list of (B, 10, N, 1) tensors
    f_decoder_list,       \* RandLANet.construct: decoder feature maps (shapes)
    i,                    \* loop counter of the encoder loop and of SEloss.construct
    j,                    \* loop counter of the decoder loop
    target_se_features,   \* SEloss.construct: targets of the current level
    self_enhance_loss,    \* SEloss.construct: accumulator, <<>> for None
    logits,               \* scores returned by the network
    CE_loss, h_loss, se_loss, loss,
    net_calls             \* number of calls of self.network

vars == <<LossBase, args, ret, step, inp, feature, multihot_labels, f_stack,
          supervised_features, se_features_list, f_decoder_list, i, j,
          target_se_features, self_enhance_loss, logits,
          CE_loss, h_loss, se_loss, loss, net_calls>>

netVars == <<inp, feature, multihot_labels, f_stack,
             supervised_features, se_features_list, f_decoder_list, i, j,
             target_se_features, self_enhance_loss, logits,
             CE_loss, h_loss, se_loss, loss, net_calls>>

----------------------------------------------------------------------------
(* Bounds of the model *)

Batch == 1          \* B
NumPoints == 3      \* N of the finest level
NumNbr == 2         \* K, also max_num of the pooling indices
NumSeeds == 3       \* number of distinct weight / value seeds
NumClasses == 2     \* num_classes, the constructor argument
InChannels == 3     \* d_in, the constructor argument
Scale == 10000      \* fixed-point unit of the losses

(* Program constants *)
LabelDepth == 13    \* nn.OneHot(depth=13), Tile (1, 13, 1, 1)
SeDepth == 10       \* output channels of the Se heads

NoRet == <<>>
None == "None"

----------------------------------------------------------------------------
(* Tensor helpers *)

\* TLC builds a function constructor lazily and would evaluate it again at every
\* application; comparing the value with itself evaluates it once and for all
Eval(t) == IF t = t THEN t ELSE t

Dim(t) == Cardinality(DOMAIN t)

MaxOf(S) == CHOOSE x \in S : \A y \in S : y <= x

RECURSIVE SumRange(_, _, _)
\* sum of f[lo] .. f[hi], by halves
SumRange(f, lo, hi) ==
    IF lo > hi THEN 0
    ELSE IF lo = hi THEN f[lo]
    ELSE LET mid == (lo + hi) \div 2
         IN SumRange(f, lo, mid) + SumRange(f, mid + 1, hi)

\* sum of f[0] .. f[n-1]
SumTo(f, n) == SumRange(f, 0, n - 1)

\* x.expand_dims(1): (B, ...) -> (B, 1, ...)
ExpandDims1(t) == Eval([b \in DOMAIN t |-> [z \in 0..0 |-> t[b]]])

\* P.Tile()(t, (1, d, 1, 1)) on a tensor (B, d0, ., .)
Tile1(t, d) ==
    Eval(
      [b \in DOMAIN t |-> [c \in 0..(d * Dim(t[b]) - 1) |-> t[b][c % Dim(t[b])]]])

\* x.squeeze(-1) on (B, d, N, 1)
SqueezeLast(t) ==
    Eval(
      [b \in DOMAIN t |-> [c \in DOMAIN t[b] |-> [n \in DOMAIN t[b][c] |-> t[b][c][n][0]]]])

\* t.reshape((b_, d, -1)) on (B', d, N', M): the row-major sequence of all
\* elements, cut into b_ * d rows
ReshapeMerge(t, b_) ==
    Eval(
      LET d   == Dim(t[0])
          np  == Dim(t[0][0])
          m   == Dim(t[0][0][0])
          len == (Dim(t) * np * m) \div b_
      IN [b \in 0..(b_ - 1) |-> [c \in 0..(d - 1) |-> [q \in 0..(len - 1) |->
             LET f == (b * d + c) * len + q
             IN t[f \div (d * np * m)][(f \div (np * m)) % d][(f \div m) % np][f % m]]]])

\* t.reshape((b, d, n_, -1)) on (b, d, L): row-major split of the last axis
ReshapeSplit(t, n_) ==
    Eval(
      [b \in DOMAIN t |-> [c \in DOMAIN t[b] |->
          LET m == Dim(t[b][c]) \div n_
          IN [n \in 0..(n_ - 1) |-> [k \in 0..(m - 1) |-> t[b][c][n * m + k]]]]])

\* an index of P.GatherD on an axis of size n lies in -n..n-1; a negative one
\* counts from the end
GatherIndex(k, n) == IF k < 0 THEN k + n ELSE k

\* P.GatherD()(x, -1, index) on rank-3 tensors: out[b][c][q] = x[b][c][index[b][c][q]]
GatherDLast(x, index) ==
    Eval(
      [b \in DOMAIN index |-> [c \in DOMAIN index[b] |->
          [q \in DOMAIN index[b][c] |->
              x[b][c][GatherIndex(index[b][c][q], Dim(x[b][c]))]]]])

\* P.GatherD()(x, 2, index) on rank-4 tensors:
\* out[b][c][n][k] = x[b][c][index[b][c][n][k]][k]
GatherD2(x, index) ==
    Eval(
      [b \in DOMAIN index |-> [c \in DOMAIN index[b] |->
          [n \in DOMAIN index[b][c] |-> [k \in DOMAIN index[b][c][n] |->
              x[b][c][GatherIndex(index[b][c][n][k], Dim(x[b][c]))][k]]]]])

\* P.ReduceMax(keep_dims=True)(t, -1) on rank-4 tensors
ReduceMaxLastKeep(t) ==
    Eval(
      [b \in DOMAIN t |-> [c \in DOMAIN t[b] |-> [n \in DOMAIN t[b][c] |->
          [z \in 0..0 |-> MaxOf({t[b][c][n][k] : k \in DOMAIN t[b][c][n]})]]]])

\* P.ReduceMax()(t, 2) on (B, N, K, C) -> (B, N, C)
ReduceMaxAxis2(t) ==
    Eval(
      [b \in DOMAIN t |-> [n \in DOMAIN t[b] |-> [c \in DOMAIN t[b][n][0] |->
          MaxOf({t[b][n][k][c] : k \in DOMAIN t[b][n]})]]])

\* pc.transpose(0, 2, 1): (B, N, C) -> (B, C, N)
Transpose021(t) ==
    Eval(
      [b \in DOMAIN t |-> [c \in DOMAIN t[b][0] |-> [n \in DOMAIN t[b] |-> t[b][n][c]]]])

\* x.expand_dims(-1) on rank 3
ExpandDimsLast(t) ==
    Eval(
      [b \in DOMAIN t |-> [c \in DOMAIN t[b] |-> [n \in DOMAIN t[b][c] |->
          [z \in 0..0 |-> t[b][c][n]]]]])

\* P.Tile()(t, (1, 1, 1, k)) on (B, C, N, 1)
TileLast(t, k) ==
    Eval(
      [b \in DOMAIN t |-> [c \in DOMAIN t[b] |-> [n \in DOMAIN t[b][c] |->
          [q \in 0..(k * Dim(t[b][c][n]) - 1) |-> t[b][c][n][q % Dim(t[b][c][n])]]]]])

\* t.transpose(0, 2, 3, 1): (B, C, N, K) -> (B, N, K, C)
Transpose0231(t) ==
    Eval(
      [b \in DOMAIN t |-> [n \in DOMAIN t[b][0] |-> [k \in DOMAIN t[b][0][n] |->
          [c \in DOMAIN t[b] |-> t[b][c][n][k]]]]])

\* t.transpose(0, 3, 1, 2): (B, N, K, C) -> (B, C, N, K)
Transpose0312(t) ==
    Eval(
      [b \in DOMAIN t |-> [c \in DOMAIN t[b][0][0] |-> [n \in DOMAIN t[b] |->
          [k \in DOMAIN t[b][n] |-> t[b][n][k][c]]]]])

\* t.expand_dims(2): (B, N, C) -> (B, N, 1, C)
ExpandDims2(t) ==
    Eval(
      [b \in DOMAIN t |-> [n \in DOMAIN t[b] |-> [z \in 0..0 |-> t[b][n]]]])

\* P.Squeeze(2)(t): (B, N, 1, C) -> (B, N, C)
Squeeze2(t) ==
    Eval(
      [b \in DOMAIN t |-> [n \in DOMAIN t[b] |-> t[b][n][0]]])

\* x.astype(ms.float32) of an integer value: exact up to 2^24, beyond that
\* rounded to 24 significant bits, ties to even
RECURSIVE UlpOf(_, _)
UlpOf(a, p) == IF a \div p < 16777216 THEN p ELSE UlpOf(a, 2 * p)

AsFloat32(v) ==
    LET a   == IF v < 0 THEN 0 - v ELSE v
        ulp == UlpOf(a, 1)
        q   == a \div ulp
        r   == a % ulp
        up  == (2 * r > ulp) \/ (2 * r = ulp /\ q % 2 = 1)
        m   == (IF up THEN q + 1 ELSE q) * ulp
    IN IF a <= 16777216 THEN v ELSE IF v < 0 THEN 0 - m ELSE m

\* t.astype(ms.float32) on a rank-4 tensor
AsTypeFloat32(t) ==
    Eval(
      [b \in DOMAIN t |-> [n \in DOMAIN t[b] |-> [k \in DOMAIN t[b][n] |->
          [c \in DOMAIN t[b][n][k] |-> AsFloat32(t[b][n][k][c])]]]])

Shape3(t) == <<Dim(t), Dim(t[0]), Dim(t[0][0])>>
Shape4(t) == <<Dim(t), Dim(t[0]), Dim(t[0][0]), Dim(t[0][0][0])>>

----------------------------------------------------------------------------
(* RandLANet.random_sample *)

random_sample_first(feat, pool_idx) ==
    LET d    == Dim(feat[0])
        n_   == Dim(pool_idx[0])
        idx1 == Tile1(ExpandDims1(pool_idx), d)
        idx2 == ReshapeMerge(idx1, Dim(feat))
        g    == GatherDLast(SqueezeLast(feat), idx2)
        r    == ReshapeSplit(g, n_)
    IN [b \in DOMAIN r |-> [c \in DOMAIN r[b] |-> [n \in DOMAIN r[b][c] |->
            [z \in 0..0 |-> r[b][c][n][0]]]]]

random_sample(feat, pool_idx) ==
    LET b    == Dim(feat)
        d    == Dim(feat[0])
        n_   == Dim(pool_idx[0])
        idx1 == Tile1(ExpandDims1(pool_idx), d)      \* [B, d, N', max_num]
        idx2 == ReshapeMerge(idx1, b)                \* [B, d, N'*max_num]
        g    == GatherDLast(SqueezeLast(feat), idx2)
        r    == ReshapeSplit(g, n_)                  \* [B, d, N', max_num]
    IN ReduceMaxLastKeep(r)                          \* [B, d, N', 1]

(* RandLANet.gather_neighbour *)

gather_neighbour_self(pc, neighbor_idx) ==
    LET k == Dim(neighbor_idx[0][0])
    IN AsTypeFloat32(Transpose0231(TileLast(ExpandDimsLast(Transpose021(pc)), k)))

gather_neighbour(pc, neighbor_idx) ==
    LET idx          == neighbor_idx
        extended_idx == Tile1(ExpandDims1(idx), LabelDepth)
        xyz_tile     == TileLast(ExpandDimsLast(Transpose021(pc)), Dim(idx[0][0]))
        features     == GatherD2(xyz_tile, extended_idx)
    IN AsTypeFloat32(Transpose0231(features))

----------------------------------------------------------------------------
(* Inputs of the pure-function harness *)

\* an index tensor (B, n, k) with entries in 0..range-1: two free rows, the
\* others derived from them by a shift
IdxTensor(rows, n, k, range) ==
    [b \in 0..(Batch - 1) |-> [p \in 0..(n - 1) |-> [q \in 0..(k - 1) |->
        (rows[p % 2][q] + (p \div 2) + b) % range]]]

IdxTensors(n, k, range) ==
    {IdxTensor(rows, n, k, range) : rows \in [0..1 -> [0..(k - 1) -> 0..(range - 1)]]}

\* a value of a seeded integer tensor
SeedVal(seed, b, c, n) == (((seed + 1) * (n + 1) + c * (n + 2) + b) % 5) - 2

SampleChannels == NumNbr + 1
SampleOut == NumPoints - 1

SampleFeature(seed) ==
    [b \in 0..(Batch - 1) |-> [c \in 0..(SampleChannels - 1) |->
        [n \in 0..(NumPoints - 1) |-> [z \in 0..0 |-> SeedVal(seed, b, c, n)]]]]

GatherPc(seed) ==
    [b \in 0..(Batch - 1) |-> [n \in 0..(NumPoints - 1) |->
        [c \in 0..(LabelDepth - 1) |->
            SeedVal(seed, b, c, n)
              + (IF seed = 0 /\ c = LabelDepth - 1 THEN 16777217 ELSE 0)]]]

\* the import of model.py reaches "class WeightCEloss(LossBase)" with the name bound
ImportModule ==
    /\ step = "import"
    /\ LossBase # "undefined"
    /\ step' = "imported"
    /\ UNCHANGED <<LossBase, args, ret, netVars>>

\* the name is unbound, as it is unless the host binds it: the class statement
\* raises NameError and no name of the module can be used
ImportNameError ==
    /\ step = "import"
    /\ LossBase = "undefined"
    /\ step' = "NameError"
    /\ UNCHANGED <<LossBase, args, ret, netVars>>

\* the module is not imported yet; model.py itself never binds LossBase
InitImport ==
    /\ step = "import"
    /\ LossBase \in {"undefined", "nn.Cell"}

IdleNet ==
    /\ inp = None /\ feature = None /\ multihot_labels = <<>>
    /\ f_stack = <<>> /\ supervised_features = <<>> /\ se_features_list = <<>>
    /\ f_decoder_list = <<>> /\ i = 0 /\ j = 0 /\ logits = None
    /\ target_se_features = None /\ self_enhance_loss = <<>>
    /\ CE_loss = None /\ h_loss = None /\ se_loss = None /\ loss = None
    /\ net_calls = 0

InitSample ==
    /\ args \in {[fn |-> "random_sample", feature |-> SampleFeature(s), pool_idx |-> x] :
                    s \in 0..(NumSeeds - 1),
                    x \in IdxTensors(SampleOut, NumNbr, NumPoints)}
    /\ ret = NoRet
    /\ InitImport
    /\ IdleNet

CallRandomSample ==
    /\ args.fn = "random_sample"
    /\ step = "imported"
    /\ step' = "returned"
    /\ ret' = random_sample(args.feature, args.pool_idx)
    /\ UNCHANGED <<LossBase, args, netVars>>

NextSample == ImportModule \/ ImportNameError \/ CallRandomSample

SpecSample == InitSample /\ [][NextSample]_vars

InitGather ==
    /\ args \in {[fn |-> "gather_neighbour", pc |-> GatherPc(s), neighbor_idx |-> x] :
                    s \in 0..(NumSeeds - 1),
                    x \in IdxTensors(NumPoints, NumNbr, NumPoints)}
    /\ ret = NoRet
    /\ InitImport
    /\ IdleNet

CallGatherNeighbour ==
    /\ args.fn = "gather_neighbour"
    /\ step = "imported"
    /\ step' = "returned"
    /\ ret' = gather_neighbour(args.pc, args.neighbor_idx)
    /\ UNCHANGED <<LossBase, args, netVars>>

NextGather == ImportModule \/ ImportNameError \/ CallGatherNeighbour

SpecGather == InitGather /\ [][NextGather]_vars

----------------------------------------------------------------------------
(* get_param_groups *)

DotBias  == <<".", "b", "i", "a", "s">>
DotGamma == <<".", "g", "a", "m", "m", "a">>
DotBeta  == <<".", "b", "e", "t", "a">>

\* str.endswith
EndsWith(s, suf) ==
    /\ Len(s) >= Len(suf)
    /\ SubSeq(s, Len(s) - Len(suf) + 1, Len(s)) = suf

\* the suffix is looked for anywhere in the name
Contains(s, suf) ==
    \E k \in 1..Len(s) : k + Len(suf) - 1 <= Len(s) /\ SubSeq(s, k, k + Len(suf) - 1) = suf

RECURSIVE ParamLoopContains(_, _, _, _)
ParamLoopContains(params, k, decay_params, no_decay_params) ==
    IF k > Len(params) THEN <<no_decay_params, decay_params>>
    ELSE LET x == params[k]
             parameter_name == x.name
         IN IF Contains(parameter_name, DotBias) \/ Contains(parameter_name, DotGamma)
                 \/ Contains(parameter_name, DotBeta)
            THEN ParamLoopContains(params, k + 1, decay_params, Append(no_decay_params, x))
            ELSE ParamLoopContains(params, k + 1, Append(decay_params, x), no_decay_params)

\* the loop over network.trainable_params(), from its k-th element on
RECURSIVE ParamLoop(_, _, _, _)
ParamLoop(params, k, decay_params, no_decay_params) ==
    IF k > Len(params) THEN <<no_decay_params, decay_params>>
    ELSE LET x == params[k]
             parameter_name == x.name
         IN IF EndsWith(parameter_name, DotBias)
            THEN ParamLoop(params, k + 1, decay_params, Append(no_decay_params, x))
            ELSE IF EndsWith(parameter_name, DotGamma)
            THEN ParamLoop(params, k + 1, decay_params, Append(no_decay_params, x))
            ELSE IF EndsWith(parameter_name, DotBeta)
            THEN ParamLoop(params, k + 1, decay_params, Append(no_decay_params, x))
            ELSE ParamLoop(params, k + 1, Append(decay_params, x), no_decay_params)

get_param_groups(trainable_params) ==
    LET r == ParamLoop(trainable_params, 1, <<>>, <<>>)
    IN <<[params |-> r[1], weight_decay |-> 0], [params |-> r[2]]>>

MaxParams == 3

ParamNames ==
    { <<"w">> \o DotBias,                  \* "w.bias"
      <<"n">> \o DotGamma,                 \* "n.gamma"
      <<"n">> \o DotBeta,                  \* "n.beta"
      DotBeta,                             \* ".beta"
      <<"w", ".", "w">>,                   \* "w.w"
      <<"b", "i", "a", "s">>,              \* "bias", no dot
      DotBias \o <<".", "w">>,             \* ".bias.w"
      DotGamma \o <<"s">> }                \* ".gammas"

Parameters == {[name |-> n] : n \in ParamNames}

ParamLists ==
    {l \in UNION {[1..n -> Parameters] : n \in 0..MaxParams} :
        \A a, b \in DOMAIN l : a # b => l[a] # l[b]}

InitParams ==
    /\ args \in {[fn |-> "get_param_groups", trainable_params |-> l] : l \in ParamLists}
    /\ ret = NoRet
    /\ InitImport
    /\ IdleNet

CallGetParamGroups ==
    /\ args.fn = "get_param_groups"
    /\ step = "imported"
    /\ step' = "returned"
    /\ ret' = get_param_groups(args.trainable_params)
    /\ UNCHANGED <<LossBase, args, netVars>>

NextParams == ImportModule \/ ImportNameError \/ CallGetParamGroups

SpecParams == InitParams /\ [][NextParams]_vars

----------------------------------------------------------------------------
(* Fixed-point exp and ln, in units of 1/Scale *)

\* exp(-n) for a natural number n
RECURSIVE ExpNeg(_)
ExpNeg(n) == IF n = 0 THEN Scale ELSE (ExpNeg(n - 1) * 3679) \div 10000

\* ln(x / Scale) for x >= Scale: halve down to [1, 2), then the atanh series
RECURSIVE LnFix(_)
LnFix(x) ==
    IF x >= 2 * Scale THEN (Scale * 6931) \div 10000 + LnFix(x \div 2)
    ELSE LET z  == ((x - Scale) * Scale) \div (x + Scale)
             z2 == (z * z) \div Scale
             z3 == (z * z2) \div Scale
             z5 == (z3 * z2) \div Scale
             z7 == (z5 * z2) \div Scale
         IN 2 * (z + z3 \div 3 + z5 \div 5 + z7 \div 7)

\* log(sum_c exp(row[c])) of an integer row
LogSumExp(row) ==
    LET m == MaxOf({row[c] : c \in DOMAIN row})
        e == [c \in DOMAIN row |-> ExpNeg(m - row[c])]
    IN m * Scale + LnFix(SumTo(e, Dim(row)))

\* nn.SoftmaxCrossEntropyWithLogits(sparse=False), reduction 'none', on one row:
\* -sum_c labels[c] * log_softmax(logits)[c]
SoftmaxCrossEntropyWithLogits(logit_row, label_row) ==
    LET lse  == LogSumExp(logit_row)
        term == [c \in DOMAIN logit_row |-> label_row[c] * (lse - logit_row[c] * Scale)]
    IN SumTo(term, Dim(logit_row))

\* P.SigmoidCrossEntropyWithLogits()(logits, label) on one element:
\* max(x, 0) - x * z + log(1 + exp(-|x|))
SigmoidCrossEntropyWithLogits(x, z) ==
    LET ax == IF x < 0 THEN 0 - x ELSE x
    IN (IF x > 0 THEN x ELSE 0) * Scale - x * z * Scale + LnFix(Scale + ExpNeg(ax))

----------------------------------------------------------------------------
(* WeightCEloss *)

\* nn.OneHot(depth) of one label
OneHotRow(label, depth) == [c \in 0..(depth - 1) |-> IF c = label THEN 1 ELSE 0]

\* logits.swapaxes(-2, -1).reshape((-1, num_classes)): (B, C, N) -> (B*N, C)
LogitRows(lg) ==
    Eval(
      LET n == Dim(lg[0][0])
      IN [r \in 0..(Dim(lg) * n - 1) |-> [c \in DOMAIN lg[0] |-> lg[r \div n][c][r % n]]])

\* labels.reshape((-1,)): (B, N) -> (B*N)
FlatLabels(lab) ==
    Eval(
      LET n == Dim(lab[0])
      IN [r \in 0..(Dim(lab) * n - 1) |-> lab[r \div n][r % n]])

WeightCEloss_bysum(weights, num_classes, lg, lab) ==
    LET logit   == LogitRows(lg)
        labels  == FlatLabels(lab)
        one_hot == [r \in DOMAIN labels |-> OneHotRow(labels[r], num_classes)]
        w       == [r \in DOMAIN labels |->
                       SumTo([c \in 0..(num_classes - 1) |-> weights[c] * one_hot[r][c]],
                             num_classes)]
        wl      == [r \in DOMAIN labels |->
                       SoftmaxCrossEntropyWithLogits(logit[r], one_hot[r]) * w[r]]
    IN SumTo(wl, Dim(labels)) \div SumTo(w, Dim(labels))

WeightCEloss(weights, num_classes, lg, lab) ==
    LET logit           == LogitRows(lg)                      \* [b*n, C]
        labels          == FlatLabels(lab)                    \* [b*n]
        one_hot_labels  == [r \in DOMAIN labels |-> OneHotRow(labels[r], num_classes)]
        weights2        == [r \in DOMAIN labels |->
                               [c \in 0..(num_classes - 1) |->
                                   weights[c] * one_hot_labels[r][c]]]
        weights1        == [r \in DOMAIN labels |-> SumTo(weights2[r], num_classes)]
        unweighted_loss == [r \in DOMAIN labels |->
                               SoftmaxCrossEntropyWithLogits(logit[r], one_hot_labels[r])]
        weighted_loss   == [r \in DOMAIN labels |-> unweighted_loss[r] * weights1[r]]
    IN SumTo(weighted_loss, Dim(labels)) \div Dim(labels)     \* .mean()

\* class weights, one positive integer per class
WeightVec(seed) == [c \in 0..(NumClasses - 1) |-> 1 + ((c + seed) % NumSeeds)]

\* labels (B, N): the batch-0 row is free, the others are shifted copies
LabelTensor(base) ==
    [b \in 0..(Batch - 1) |-> [n \in DOMAIN base |-> (base[n] + b) % NumClasses]]

LabelTensors == {LabelTensor(base) : base \in [0..(NumPoints - 1) -> 0..(NumClasses - 1)]}

\* a seeded tensor (B, C, N)
SeedTensor3(seed, c_, n_) ==
    [b \in 0..(Batch - 1) |-> [c \in 0..(c_ - 1) |-> [n \in 0..(n_ - 1) |->
        SeedVal(seed, b, c, n)]]]

InitCE ==
    /\ args \in {[fn |-> "WeightCEloss", weights |-> WeightVec(ws), num_classes |-> NumClasses,
                  logits |-> SeedTensor3(s, NumClasses, NumPoints), labels |-> l] :
                    ws \in 0..(NumSeeds - 1), s \in 0..(NumSeeds - 1), l \in LabelTensors}
    /\ ret = NoRet
    /\ InitImport
    /\ IdleNet

CallWeightCEloss ==
    /\ args.fn = "WeightCEloss"
    /\ step = "imported"
    /\ step' = "returned"
    /\ ret' = WeightCEloss(args.weights, args.num_classes, args.logits, args.labels)
    /\ UNCHANGED <<LossBase, args, netVars>>

NextCE == ImportModule \/ ImportNameError \/ CallWeightCEloss

SpecCE == InitCE /\ [][NextCE]_vars

----------------------------------------------------------------------------
(* Shapes of the feature maps that pass through learned layers *)

ShapeError == <<0, 0, 0, 0>>

\* SharedMLP.construct: Conv2d / Conv2dTranspose with kernel 1 and stride 1,
\* batch norm and activation keep (B, ., N, K) and map d_in to d_out channels
SharedMLP(in_channels, out_channels, x) ==
    IF x = ShapeError \/ x[2] # in_channels THEN ShapeError
    ELSE <<x[1], out_channels, x[3], x[4]>>

\* P.Concat(1) / P.Concat(-3) of two rank-4 tensors
Concat1(a, b) ==
    IF a = ShapeError \/ b = ShapeError \/ a[1] # b[1] \/ a[3] # b[3] \/ a[4] # b[4]
    THEN ShapeError
    ELSE <<a[1], a[2] + b[2], a[3], a[4]>>

\* a + b with broadcasting: in every axis the sizes are equal or one of them is 1
AddBroadcast(a, b) ==
    IF a = ShapeError \/ b = ShapeError
         \/ \E k \in 1..4 : a[k] # b[k] /\ a[k] # 1 /\ b[k] # 1
    THEN ShapeError
    ELSE [k \in 1..4 |-> IF a[k] = 1 THEN b[k] ELSE a[k]]

\* f_tile = Tile(features, (1, 1, 1, K)), extended_idx_for_feat = idx tiled to the
\* channels of f_xyz, P.GatherD()(f_tile, 2, extended_idx_for_feat): the two agree in
\* every axis but 2, the indices are rows of f_tile, the result has the index's shape
NeighbourFeatures(features, f_xyz, idx) ==
    IF features = ShapeError \/ f_xyz = ShapeError
         \/ features[1] # Dim(idx)
         \/ features[2] # f_xyz[2]
         \/ features[4] * Dim(idx[0][0]) # Dim(idx[0][0])
         \/ \E b \in DOMAIN idx : \E n \in DOMAIN idx[b] : \E k \in DOMAIN idx[b][n] :
               idx[b][n][k] >= features[3] \/ idx[b][n][k] < 0 - features[3]
    THEN ShapeError
    ELSE <<Dim(idx), f_xyz[2], Dim(idx[0]), Dim(idx[0][0])>>

\* LocalSpatialEncoding.construct with use_pos_encoding: (f_xyz, f_concat)
LocalSpatialEncoding1(out_channel, features, idx) ==
    LET rel   == <<Dim(idx), 10, Dim(idx[0]), Dim(idx[0][0])>>   \* 1 + 3 + 3 + 3
        f_xyz == SharedMLP(10, out_channel, rel)
    IN <<f_xyz, Concat1(f_xyz, NeighbourFeatures(features, f_xyz, idx))>>

\* LocalSpatialEncoding.construct without position encoding: f_concat
LocalSpatialEncoding2(in_channel, out_channel, coords, features, idx) ==
    LET f_xyz == SharedMLP(in_channel, out_channel, coords)
    IN Concat1(f_xyz, NeighbourFeatures(features, f_xyz, idx))

\* AttentivePooling.construct: Dense(in, in) scores, sum over K, then the mlp
AttentivePooling(in_channels, out_channels, x) ==
    IF x = ShapeError \/ x[2] # in_channels THEN ShapeError
    ELSE SharedMLP(in_channels, out_channels, <<x[1], x[2], x[3], 1>>)

\* LocalFeatureAggregation.construct
LocalFeatureAggregation(d_in, d_out, features, neighbor_idx) ==
    LET f_pc     == SharedMLP(d_in, d_out \div 2, features)
        l1       == LocalSpatialEncoding1(d_out \div 2, f_pc, neighbor_idx)
        f_pc_agg == AttentivePooling(d_out, d_out \div 2, l1[2])
        f_concat == LocalSpatialEncoding2(d_out \div 2, d_out \div 2, l1[1], f_pc_agg,
                                          neighbor_idx)
        f_agg2   == AttentivePooling(d_out, d_out, f_concat)
    IN AddBroadcast(SharedMLP(d_out, 2 * d_out, f_agg2), SharedMLP(d_in, 2 * d_out, features))

\* random_sample on a feature map tracked by its shape: pool_idx is tiled to d
\* channels and reshaped to (b, d, -1) with the batch b of the feature, gathered,
\* reshaped to (b, d, n_, -1) and reduced
RandomSampleShape(x, pool_idx) ==
    IF x = ShapeError THEN ShapeError
    ELSE LET b     == x[1]
             n_    == Dim(pool_idx[0])
             total == Dim(pool_idx) * n_ * Dim(pool_idx[0][0])
         IN IF x[4] # 1 \/ total % b # 0 \/ (total \div b) % n_ # 0
                 \/ \E q \in DOMAIN pool_idx : \E n \in DOMAIN pool_idx[q] :
                       \E k \in DOMAIN pool_idx[q][n] :
                           pool_idx[q][n][k] >= x[3] \/ pool_idx[q][n][k] < 0 - x[3]
            THEN ShapeError
            ELSE <<b, x[2], n_, 1>>

\* channel configuration of RandLANet.__init__
EncoderDims   == <<<<8, 16>>, <<32, 64>>, <<128, 128>>, <<256, 256>>, <<512, 512>>>>
SuperviseDims == <<1024, 512, 256, 128, 32, 32>>
SeDims        == <<512, 256, 128, 32>>
DecoderDims   == <<<<1536, 512>>, <<768, 256>>, <<384, 128>>, <<160, 32>>, <<64, 32>>>>

\* list[k] with Python indexing, k may be negative
PyIndex(list, k) == IF k >= 0 THEN list[k + 1] ELSE list[Len(list) + k + 1]

\* the value a learned head produces at (b, c, n), fixed by the weights w
HeadVal(w, layer, b, c, n) == ((w + layer + b + 2 * c + n) % 3) - 1

\* a learned head SharedMLP(in, out) whose output reaches a loss: (B, out, N, 1)
LearnedHead(layer, in_channels, out_channels, x, w) ==
    Eval(
      LET sh == SharedMLP(in_channels, out_channels, x)
      IN IF sh = ShapeError THEN <<>>
         ELSE [b \in 0..(sh[1] - 1) |-> [c \in 0..(sh[2] - 1) |-> [n \in 0..(sh[3] - 1) |->
                 [z \in 0..0 |-> HeadVal(w, layer, b, c, n)]]]])

\* self.supervise[k](feature), then P.Squeeze(2)(t.transpose(0, 2, 3, 1))
Supervise(k, x, w) ==
    LET t == LearnedHead(k, SuperviseDims[k + 1], LabelDepth, x, w)
    IN IF t = <<>> THEN <<>> ELSE Squeeze2(Transpose0231(t))

\* self.Se[j](f_decoder_i)
Se(k, x, w) == LearnedHead(10 + k, SeDims[k + 1], SeDepth, x, w)

fc_end_13(x, num_classes, w) ==
    LET h1 == SharedMLP(32, 64, x)
        h2 == SharedMLP(64, 32, h1)
        t  == LearnedHead(20, 32, LabelDepth, h2, w)
    IN IF t = <<>> THEN <<>> ELSE SqueezeLast(t)

\* self.fc_end(f_decoder_list[-1]).squeeze(-1): (B, num_classes, N)
fc_end(x, num_classes, w) ==
    LET h1 == SharedMLP(32, 64, x)
        h2 == SharedMLP(64, 32, h1)          \* nn.Dropout keeps the shape
        t  == LearnedHead(20, 32, num_classes, h2, w)
    IN IF t = <<>> THEN <<>> ELSE SqueezeLast(t)

\* self.fc_start(feature).swapaxes(-2, -1).expand_dims(-1), self.bn_start
fc_start(d_in, x) ==
    IF x[3] # d_in THEN ShapeError ELSE <<x[1], 8, x[2], 1>>

\* P.cast(onehot(labels), ms.int32) with nn.OneHot(depth=13): (B, N) -> (B, N, 13)
OneHotLabels(labels) ==
    Eval(
      [b \in DOMAIN labels |-> [n \in DOMAIN labels[b] |-> OneHotRow(labels[b][n], LabelDepth)]])

label_sample_onehop(multihot_label, neighbor_idx, sub_idx) ==
    LET t1 == ReduceMaxAxis2(gather_neighbour(multihot_label, neighbor_idx))
        t3 == Transpose0312(ExpandDims2(t1))
    IN Squeeze2(Transpose0231(random_sample(t3, sub_idx)))

\* the "label sample" of one encoder level
label_sample(multihot_label, neighbor_idx, sub_idx) ==
    LET t1 == ReduceMaxAxis2(gather_neighbour(multihot_label, neighbor_idx))
        t2 == ReduceMaxAxis2(gather_neighbour(t1, neighbor_idx))
        t3 == Transpose0312(ExpandDims2(t2))                    \* (B, 13, N, 1)
    IN Squeeze2(Transpose0231(random_sample(t3, sub_idx)))      \* (B, N', 13)

----------------------------------------------------------------------------
(* Losses *)

LossError == 0 - 1

\* P.ReduceMean()(self.loss_fn(logits, label)) of two rank-3 tensors
MeanSigmoidCE3(x, z) ==
    IF x = <<>> \/ z = <<>> \/ Shape3(x) # Shape3(z) THEN LossError
    ELSE LET nb == Dim(x)
             nn == Dim(x[0])
             nc == Dim(x[0][0])
             el == [q \in 0..(nb * nn * nc - 1) |->
                       LET b == q \div (nn * nc)
                           n == (q \div nc) % nn
                           c == q % nc
                       IN SigmoidCrossEntropyWithLogits(x[b][n][c], z[b][n][c])]
         IN SumTo(el, nb * nn * nc) \div (nb * nn * nc)

\* the same on rank-4 tensors (B, C, N, 1)
MeanSigmoidCE4(x, z) == MeanSigmoidCE3(SqueezeLast(x), SqueezeLast(z))

Hloss_sameindex(ml, sf) ==
    LET t0 == MeanSigmoidCE3(sf[1], ml[3])
        t1 == MeanSigmoidCE3(sf[2], ml[4])
        t2 == MeanSigmoidCE3(sf[3], ml[5])
        t3 == MeanSigmoidCE3(sf[4], ml[6])
    IN IF LossError \in {t0, t1, t2, t3} THEN LossError ELSE (t0 + t1 + t2 + t3) \div 4

\* Hloss.construct; the lists are 1-based here, list[k] of the code is list[k + 1]
Hloss(ml, sf) ==
    LET t0 == MeanSigmoidCE3(sf[1], ml[6])
        t1 == MeanSigmoidCE3(sf[2], ml[5])
        t2 == MeanSigmoidCE3(sf[3], ml[4])
        t3 == MeanSigmoidCE3(sf[4], ml[3])
    IN IF LossError \in {t0, t1, t2, t3} THEN LossError ELSE (t0 + t1 + t2 + t3) \div 4

se_target_strict(se_features) ==
    Eval(
      [b \in DOMAIN se_features |-> [c \in DOMAIN se_features[b] |->
          [n \in DOMAIN se_features[b][c] |-> [z \in DOMAIN se_features[b][c][n] |->
              IF se_features[b][c][n][z] > 0 THEN 1 ELSE 0]]]])

\* P.cast(P.GreaterEqual()(se_features, 0.), ms.int32)
se_target(se_features) ==
    Eval(
      [b \in DOMAIN se_features |-> [c \in DOMAIN se_features[b] |->
          [n \in DOMAIN se_features[b][c] |-> [z \in DOMAIN se_features[b][c][n] |->
              IF se_features[b][c][n][z] >= 0 THEN 1 ELSE 0]]]])

TotalLoss_noSE(ce, h, se) == ce + h

\* loss = CE_loss + h_loss + se_loss
TotalLoss(ce, h, se) == ce + h + se

----------------------------------------------------------------------------
(* RandLAWithLoss.construct, step by step *)

\* number of points of level l = 0..5 of the sampling pyramid
NPts(l) == NumPoints + (5 - l)

NeighborIdx(ix, n) ==
    [b \in 0..(Batch - 1) |-> [p \in 0..(n - 1) |-> [k \in 0..(NumNbr - 1) |->
        (p + k * (1 + ix) + b) % n]]]

SubIdx(ix, n, nsub) ==
    [b \in 0..(Batch - 1) |-> [p \in 0..(nsub - 1) |-> [k \in 0..(NumNbr - 1) |->
        (p * (1 + ix) + k + b) % n]]]

InterpIdx(ix, n, nsub) ==
    [b \in 0..(Batch - 1) |-> [p \in 0..(n - 1) |-> [z \in 0..0 |-> (p + ix) % nsub]]]

\* labels of all N0 points: the first NumNbr are free, the others follow
PyramidLabels(base, n) ==
    [b \in 0..(Batch - 1) |-> [p \in 0..(n - 1) |->
        (base[p % NumNbr] + (p \div (2 * NumNbr)) + b) % NumClasses]]

Inputs ==
    {[feature      |-> <<Batch, NPts(0), InChannels>>,
      labels       |-> PyramidLabels(base, NPts(0)),
      input_inds   |-> ic[1],
      cloud_inds   |-> ic[2],
      neighbor_idx |-> [l \in 1..5 |-> NeighborIdx(ix, NPts(l - 1))],
      sub_idx      |-> [l \in 1..5 |-> SubIdx(ix, NPts(l - 1), NPts(l))],
      interp_idx   |-> [l \in 1..5 |-> InterpIdx(ix, NPts(l - 1), NPts(l))],
      w            |-> w,
      weights      |-> WeightVec(w),
      num_classes  |-> NumClasses,
      d_in         |-> InChannels] :
        base \in [0..(NumNbr - 1) -> 0..(NumClasses - 1)],
        ix \in 0..(NumSeeds - 1), w \in 0..(NumSeeds - 1),
        ic \in {<<0, 1>>, <<1, 0>>}}

Init ==
    /\ args = None /\ ret = NoRet
    /\ InitImport
    /\ inp \in Inputs
    /\ feature = None /\ multihot_labels = <<>> /\ f_stack = <<>>
    /\ supervised_features = <<>> /\ se_features_list = <<>> /\ f_decoder_list = <<>>
    /\ i = 0 /\ j = 0 /\ logits = None
    /\ target_se_features = None /\ self_enhance_loss = <<>>
    /\ CE_loss = None /\ h_loss = None /\ se_loss = None /\ loss = None
    /\ net_calls = 0

lossVars == <<target_se_features, self_enhance_loss, CE_loss, h_loss, se_loss, loss>>

\* self.network(...) is entered: fc_start, bn_start, the one-hot labels
NetworkCall ==
    /\ step = "imported"
    /\ step' = "encoder"
    /\ net_calls' = net_calls + 1
    /\ feature' = fc_start(inp.d_in, inp.feature)
    /\ multihot_labels' = <<OneHotLabels(inp.labels)>>
    /\ f_stack' = <<>>
    /\ i' = 0
    /\ UNCHANGED <<LossBase, args, ret, inp, supervised_features, se_features_list, f_decoder_list,
                   j, logits, lossVars>>

\* one iteration of "for i in range(5)" of the encoder
EncoderStep ==
    /\ step = "encoder"
    /\ i < 5
    /\ LET f_encoder_i == LocalFeatureAggregation(EncoderDims[i + 1][1], EncoderDims[i + 1][2],
                                                  feature, inp.neighbor_idx[i + 1])
           f_sampled_i == RandomSampleShape(f_encoder_i, inp.sub_idx[i + 1])
           tmp_multihot_label == label_sample(multihot_labels[i + 1], inp.neighbor_idx[i + 1],
                                              inp.sub_idx[i + 1])
       IN /\ feature' = f_sampled_i
          /\ f_stack' = (IF i = 0 THEN Append(f_stack, f_encoder_i) ELSE f_stack)
                            \o <<f_sampled_i>>
          /\ multihot_labels' = Append(multihot_labels, tmp_multihot_label)
    /\ i' = i + 1
    /\ UNCHANGED <<LossBase, args, ret, step, inp, supervised_features, se_features_list,
                   f_decoder_list, j, logits, lossVars, net_calls>>

\* self.mlp(f_stack[-1]) and the first supervised head
Bottleneck ==
    /\ step = "encoder"
    /\ i = 5
    /\ step' = "decoder"
    /\ feature' = SharedMLP(1024, 1024, PyIndex(f_stack, 0 - 1))
    /\ supervised_features' = <<Supervise(0, feature', inp.w)>>
    /\ f_decoder_list' = <<>>
    /\ se_features_list' = <<>>
    /\ j' = 0
    /\ UNCHANGED <<LossBase, args, ret, inp, multihot_labels, f_stack, i, logits, lossVars, net_calls>>

\* one iteration of "for j in range(5)" of the decoder
DecoderStep ==
    /\ step = "decoder"
    /\ j < 5
    /\ LET f_interp_i  == RandomSampleShape(feature, PyIndex(inp.interp_idx, 0 - j - 1))
           f_decoder_i == SharedMLP(DecoderDims[j + 1][1], DecoderDims[j + 1][2],
                                    Concat1(PyIndex(f_stack, 0 - j - 2), f_interp_i))
       IN /\ feature' = f_decoder_i
          /\ f_decoder_list' = Append(f_decoder_list, f_decoder_i)
          /\ se_features_list' = IF j < 4
                                 THEN Append(se_features_list, Se(j, f_decoder_i, inp.w))
                                 ELSE se_features_list
          /\ supervised_features' =
                 Append(supervised_features, Supervise(j + 1, f_decoder_i, inp.w))
    /\ j' = j + 1
    /\ UNCHANGED <<LossBase, args, ret, step, inp, multihot_labels, f_stack, i, logits, lossVars,
                   net_calls>>

\* scores = self.fc_end(f_decoder_list[-1]); return scores.squeeze(-1), ...
NetworkReturn ==
    /\ step = "decoder"
    /\ j = 5
    /\ step' = "ce_loss"
    /\ logits' = fc_end(PyIndex(f_decoder_list, 0 - 1), inp.num_classes, inp.w)
    /\ UNCHANGED <<LossBase, args, ret, inp, feature, multihot_labels, f_stack, supervised_features,
                   se_features_list, f_decoder_list, i, j, lossVars, net_calls>>

\* CE_loss = self.ce_loss(logits, labels)
CeLossCall ==
    /\ step = "ce_loss"
    /\ step' = "h_loss"
    /\ CE_loss' = WeightCEloss(inp.weights, inp.num_classes, logits, inp.labels)
    /\ UNCHANGED <<LossBase, args, ret, inp, feature, multihot_labels, f_stack, supervised_features,
                   se_features_list, f_decoder_list, i, j, logits, target_se_features,
                   self_enhance_loss, h_loss, se_loss, loss, net_calls>>

\* h_loss = self.h_loss(multihot_labels, supervised_features), then the entry
\* of self.se_loss(se_features_list): self_enhance_loss = None
HLossCall ==
    /\ step = "h_loss"
    /\ step' = "se_loss"
    /\ h_loss' = Hloss(multihot_labels, supervised_features)
    /\ i' = 0
    /\ self_enhance_loss' = <<>>
    /\ UNCHANGED <<LossBase, args, ret, inp, feature, multihot_labels, f_stack, supervised_features,
                   se_features_list, f_decoder_list, j, logits, target_se_features,
                   CE_loss, se_loss, loss, net_calls>>

\* one iteration of "for i in range(4)" of SEloss.construct
SeLossStep ==
    /\ step = "se_loss"
    /\ i < 4
    /\ LET se_features == se_features_list[i + 1]
           term        == MeanSigmoidCE4(se_features, se_target(se_features))
       IN /\ target_se_features' = se_target(se_features)
          /\ self_enhance_loss' = IF self_enhance_loss = <<>> THEN <<term>>
                                  ELSE <<self_enhance_loss[1] + term>>
    /\ i' = i + 1
    /\ UNCHANGED <<LossBase, args, ret, step, inp, feature, multihot_labels, f_stack,
                   supervised_features, se_features_list, f_decoder_list, j, logits,
                   CE_loss, h_loss, se_loss, loss, net_calls>>

\* self_enhance_loss /= 4.; return self_enhance_loss
SeLossReturn ==
    /\ step = "se_loss"
    /\ i = 4
    /\ self_enhance_loss # <<>>
    /\ step' = "sum"
    /\ se_loss' = self_enhance_loss[1] \div 4
    /\ UNCHANGED <<LossBase, args, ret, inp, feature, multihot_labels, f_stack, supervised_features,
                   se_features_list, f_decoder_list, i, j, logits, target_se_features,
                   self_enhance_loss, CE_loss, h_loss, loss, net_calls>>

\* loss = CE_loss + h_loss + se_loss; return loss
SumLoss ==
    /\ step = "sum"
    /\ step' = "done"
    /\ loss' = TotalLoss(CE_loss, h_loss, se_loss)
    /\ UNCHANGED <<LossBase, args, ret, inp, feature, multihot_labels, f_stack, supervised_features,
                   se_features_list, f_decoder_list, i, j, logits, target_se_features,
                   self_enhance_loss, CE_loss, h_loss, se_loss, net_calls>>

Next ==
    \/ ImportModule
    \/ ImportNameError
    \/ NetworkCall
    \/ EncoderStep
    \/ Bottleneck
    \/ DecoderStep
    \/ NetworkReturn
    \/ CeLossCall
    \/ HLossCall
    \/ SeLossStep
    \/ SeLossReturn
    \/ SumLoss

Spec == Init /\ [][Next]_vars

----------------------------------------------------------------------------
\* C2: random_sample returns a tensor of shape [B, d, N', 1] whose entry
\* [b, c, n', 0] is the maximum over k of feature[b, c, pool_idx[b, n', k], 0],
\* the same index row being used for every channel c.
C2_RandomSampleMax ==
    (args.fn = "random_sample" /\ step = "returned") =>
        LET f == args.feature
            p == args.pool_idx
        IN /\ Shape4(ret) = <<Dim(f), Dim(f[0]), Dim(p[0]), 1>>
           /\ \A b \in DOMAIN f : \A c \in DOMAIN f[b] : \A n \in DOMAIN p[b] :
                /\ \E k \in DOMAIN p[b][n] : ret[b][c][n][0] = f[b][c][p[b][n][k]][0]
                /\ \A k \in DOMAIN p[b][n] : ret[b][c][n][0] >= f[b][c][p[b][n][k]][0]

\* a call whose pooled maximum is not the first listed point, for some channel
C2_Witness ==
    /\ args.fn = "random_sample" /\ step = "returned"
    /\ \E b \in DOMAIN ret : \E c \in DOMAIN ret[b] : \E n \in DOMAIN ret[b][c] :
          ret[b][c][n][0] > args.feature[b][c][args.pool_idx[b][n][0]][0]

\* C4: gather_neighbour returns a tensor of shape (B, N, K, 13) whose entry
\* [b, n, k, c] is pc[b, neighbor_idx[b, n, k], c] converted to float32.
C4_GatherNeighbourRows ==
    (args.fn = "gather_neighbour" /\ step = "returned") =>
        LET p == args.pc
            x == args.neighbor_idx
        IN /\ Shape4(ret) = <<Dim(p), Dim(p[0]), Dim(x[0][0]), LabelDepth>>
           /\ \A b \in DOMAIN p : \A n \in DOMAIN p[b] : \A k \in DOMAIN x[b][n] :
                \A c \in 0..(LabelDepth - 1) : ret[b][n][k][c] = AsFloat32(p[b][x[b][n][k]][c])

\* a call in which some point has a neighbour other than itself whose row differs
C4_Witness ==
    /\ args.fn = "gather_neighbour" /\ step = "returned"
    /\ \E b \in DOMAIN ret : \E n \in DOMAIN ret[b] : \E k \in DOMAIN ret[b][n] :
          /\ args.neighbor_idx[b][n][k] # n
          /\ \E c \in DOMAIN ret[b][n][k] : ret[b][n][k][c] # AsFloat32(args.pc[b][n][c])

\* a name ends with suf when some tail of it is suf
HasSuffix(n, suf) == \E k \in 0..Len(n) : SubSeq(n, k + 1, Len(n)) = suf

NoDecayName(n) == HasSuffix(n, DotBias) \/ HasSuffix(n, DotGamma) \/ HasSuffix(n, DotBeta)

\* C5: get_param_groups returns exactly two groups partitioning
\* trainable_params(): each parameter is in exactly one group, exactly once, in
\* the first group (weight_decay 0.0) iff its name ends with .bias, .gamma or
\* .beta, in the second (no weight_decay key) otherwise, and each group keeps
\* the order of trainable_params().
C5_ParamGroupsPartition ==
    (args.fn = "get_param_groups" /\ step = "returned") =>
        LET tp == args.trainable_params
            g1 == ret[1].params
            g2 == ret[2].params
        IN /\ Len(ret) = 2
           /\ DOMAIN ret[1] = {"params", "weight_decay"}
           /\ ret[1].weight_decay = 0
           /\ DOMAIN ret[2] = {"params"}
           /\ Len(g1) + Len(g2) = Len(tp)
           /\ \A k \in DOMAIN tp :
                /\ NoDecayName(tp[k].name) =>
                     /\ Cardinality({q \in DOMAIN g1 : g1[q] = tp[k]}) = 1
                     /\ \A q \in DOMAIN g2 : g2[q] # tp[k]
                /\ ~NoDecayName(tp[k].name) =>
                     /\ Cardinality({q \in DOMAIN g2 : g2[q] = tp[k]}) = 1
                     /\ \A q \in DOMAIN g1 : g1[q] # tp[k]
           /\ \A g \in {g1, g2} : \A q1, q2 \in DOMAIN g :
                q1 < q2 => \E k1, k2 \in DOMAIN tp :
                              k1 < k2 /\ tp[k1] = g[q1] /\ tp[k2] = g[q2]

\* a call that fills both groups, with a name that merely contains ".bias"
C5_Witness ==
    /\ args.fn = "get_param_groups" /\ step = "returned"
    /\ Len(ret[1].params) >= 2
    /\ \E q \in DOMAIN ret[2].params : Contains(ret[2].params[q].name, DotBias)

\* C6: WeightCEloss.construct weights the cross-entropy term of each point by
\* the class weight of the point's label and returns the mean over all B*N
\* points (divides by B*N, not by the sum of the weights).
C6_WeightedMean ==
    (args.fn = "WeightCEloss" /\ step = "returned") =>
        LET lg == args.logits
            lb == args.labels
            n  == Dim(lb[0])
            pt == [r \in 0..(Dim(lb) * n - 1) |->
                     LET b == r \div n
                         p == r % n
                         l == lb[b][p]
                         row == [c \in DOMAIN lg[b] |-> lg[b][c][p]]
                     IN args.weights[l] * (LogSumExp(row) - row[l] * Scale)]
        IN ret = SumTo(pt, Dim(lb) * n) \div (Dim(lb) * n)

\* a call whose labels differ and whose weights do not sum to the point count
C6_Witness ==
    /\ args.fn = "WeightCEloss" /\ step = "returned"
    /\ ret > 0
    /\ \E p, q \in DOMAIN args.labels[0] : args.labels[0][p] # args.labels[0][q]
    /\ LET fl == FlatLabels(args.labels)
       IN SumTo([r \in DOMAIN fl |-> args.weights[fl[r]]], Dim(fl)) # Dim(fl)

----------------------------------------------------------------------------
(* Reference formulas of the loss claims *)

\* sum over all elements of a rank-3 tensor of the sigmoid cross-entropy of the
\* logit x[b][n][c] against the target z[b][n][c]
SumSigmoidCE3(x, z) ==
    SumTo([b \in DOMAIN x |->
             SumTo([n \in DOMAIN x[b] |->
                      SumTo([c \in DOMAIN x[b][n] |->
                               SigmoidCrossEntropyWithLogits(x[b][n][c], z[b][n][c])],
                            Dim(x[b][n]))],
                   Dim(x[b]))],
          Dim(x))

MeanRef3(x, z) == SumSigmoidCE3(x, z) \div (Dim(x) * Dim(x[0]) * Dim(x[0][0]))

\* the thresholded copy of a rank-4 tensor, squeezed to rank 3
Threshold(t) ==
    [b \in DOMAIN t |-> [c \in DOMAIN t[b] |-> [n \in DOMAIN t[b][c] |->
        IF t[b][c][n][0] < 0 THEN 0 ELSE 1]]]

HRef == (MeanRef3(supervised_features[1], multihot_labels[6])
          + MeanRef3(supervised_features[2], multihot_labels[5])
          + MeanRef3(supervised_features[3], multihot_labels[4])
          + MeanRef3(supervised_features[4], multihot_labels[3])) \div 4

SERef == (MeanRef3(SqueezeLast(se_features_list[1]), Threshold(se_features_list[1]))
           + MeanRef3(SqueezeLast(se_features_list[2]), Threshold(se_features_list[2]))
           + MeanRef3(SqueezeLast(se_features_list[3]), Threshold(se_features_list[3]))
           + MeanRef3(SqueezeLast(se_features_list[4]), Threshold(se_features_list[4])))
             \div 4

NetReturned == step \in {"ce_loss", "h_loss", "se_loss", "sum", "done"}

\* C1: RandLAWithLoss.construct returns CE_loss + h_loss + se_loss, the plain
\* sum of the weighted cross-entropy of the logits against the labels, of Hloss
\* and of SEloss, all computed from the outputs of one single call of the
\* network; input_inds and cloud_inds do not enter the value.
C1_LossIsPlainSum ==
    step = "done" =>
        /\ net_calls = 1
        /\ logits # <<>>
        /\ loss = WeightCEloss(inp.weights, inp.num_classes, logits, inp.labels)
                    + HRef + SERef
        /\ loss = CE_loss + h_loss + se_loss

\* the call has returned a loss to which each of the three terms contributes
C1_Witness ==
    /\ step = "done"
    /\ CE_loss > 0 /\ h_loss > 0 /\ se_loss > 0
    /\ loss > CE_loss + h_loss
    /\ inp.input_inds # inp.cloud_inds

\* C3: RandLANet.construct returns the scores with shape (B, num_classes, N),
\* N being the number of points of the input feature.
C3_ScoresShape ==
    NetReturned =>
        /\ logits # <<>>
        /\ Shape3(logits) = <<inp.feature[1], inp.num_classes, inp.feature[2]>>

\* the network has returned scores for more points than there are classes
C3_Witness ==
    /\ step = "ce_loss"
    /\ logits # <<>>
    /\ Dim(logits[0][0]) > Dim(logits[0])
    /\ Dim(logits[0][0]) = Dim(inp.labels[0])

\* C7: Hloss.construct returns a quarter of the sum of the four mean sigmoid
\* cross-entropies of supervised_features[k] against multihot_labels[5-k],
\* k = 0..3; on a consistent pyramid the two tensors of each term have the same
\* number of points and 13 classes; supervised_features[4], [5] and
\* multihot_labels[0], [1] enter no term.
C7_HlossPairsLevels ==
    step \in {"se_loss", "sum", "done"} =>
        /\ Len(supervised_features) = 6
        /\ Len(multihot_labels) = 6
        /\ \A k \in 0..3 :
              /\ supervised_features[k + 1] # <<>>
              /\ Shape3(supervised_features[k + 1]) = Shape3(multihot_labels[6 - k])
              /\ Shape3(supervised_features[k + 1]) =
                     <<inp.feature[1], Dim(inp.sub_idx[5 - k][0]), LabelDepth>>
        /\ h_loss = HRef

\* Hloss has returned a positive loss over four levels of different sizes
C7_Witness ==
    /\ step = "se_loss"
    /\ h_loss > 0
    /\ \A k \in 0..2 : Dim(multihot_labels[6 - k][0]) < Dim(multihot_labels[5 - k][0])
    /\ \E b \in DOMAIN multihot_labels[6] : \E c1, c2 \in DOMAIN multihot_labels[6][b][0] :
          c1 # c2 /\ multihot_labels[6][b][0][c1] = 1 /\ multihot_labels[6][b][0][c2] = 1

\* C8: SEloss.construct takes as target of every value v its own threshold
\* (1 when v >= 0, also for v = 0; 0 when v < 0) and returns a quarter of the sum
\* of the four per-level means; RandLANet.construct produces exactly four
\* se_features entries, for the decoder steps j = 0..3, so the accumulator is not
\* None when it is divided.
C8_SelfEnhanceTargets ==
    /\ step = "decoder" => Len(se_features_list) = (IF j < 4 THEN j ELSE 4)
    /\ NetReturned =>
          /\ Len(se_features_list) = 4
          /\ \A k \in 1..4 :
                /\ se_features_list[k] # <<>>
                /\ Shape4(se_features_list[k]) =
                      <<inp.feature[1], SeDepth, Dim(inp.interp_idx[5 - k + 1][0]), 1>>
    /\ (step = "se_loss" /\ i >= 1) =>
          /\ self_enhance_loss # <<>>
          /\ LET v == se_features_list[i]
                 t == target_se_features
             IN \A b \in DOMAIN v : \A c \in DOMAIN v[b] : \A n \in DOMAIN v[b][c] :
                   /\ v[b][c][n][0] >= 0 => t[b][c][n][0] = 1
                   /\ v[b][c][n][0] < 0 => t[b][c][n][0] = 0
    /\ step \in {"sum", "done"} => se_loss = SERef

\* SEloss has processed a level that holds a value 0 and a negative value
C8_Witness ==
    /\ step = "se_loss" /\ i = 4
    /\ self_enhance_loss # <<>>
    /\ LET v == se_features_list[i]
       IN /\ \E b \in DOMAIN v : \E c \in DOMAIN v[b] : \E n \in DOMAIN v[b][c] :
                v[b][c][n][0] = 0 /\ target_se_features[b][c][n][0] = 1
          /\ \E b \in DOMAIN v : \E c \in DOMAIN v[b] : \E n \in DOMAIN v[b][c] :
                v[b][c][n][0] < 0

\* class c is among the labels of some point reached within two applications
\* of nidx from a point listed in sidx[b][n]
TwoHopLabel(ml, nidx, sidx, b, n, c) ==
    \E k \in DOMAIN sidx[b][n] :
        LET p == sidx[b][n][k]
        IN \E k2 \in DOMAIN nidx[b][p] :
              LET q == nidx[b][p][k2]
              IN \E k3 \in DOMAIN nidx[b][q] : ml[b][nidx[b][q][k3]][c] = 1

\* C9: for every encoder level i the label set of a sampled point of level i+1
\* is the union of the level-i label sets of all points within two applications
\* of neighbor_idx[i] from the points of its sub_idx[i] row.
C9_LabelsTwoHopUnion ==
    step = "encoder" => \A l \in 1..(Len(multihot_labels) - 1) :
        LET ml   == multihot_labels[l]
            nxt  == multihot_labels[l + 1]
            nidx == inp.neighbor_idx[l]
            sidx == inp.sub_idx[l]
        IN /\ Shape3(nxt) = <<Dim(ml), Dim(sidx[0]), LabelDepth>>
           /\ \A b \in DOMAIN nxt : \A n \in DOMAIN nxt[b] : \A c \in DOMAIN nxt[b][n] :
                 nxt[b][n][c] = IF TwoHopLabel(ml, nidx, sidx, b, n, c) THEN 1 ELSE 0

\* a sampled point got a class that none of its sub_idx points nor their direct
\* neighbours carry, and a class present at the level did not reach some
\* sampled point
C9_Witness ==
    /\ step = "encoder" /\ i = 5
    /\ LET ml   == multihot_labels[1]
           nxt  == multihot_labels[2]
           nidx == inp.neighbor_idx[1]
           sidx == inp.sub_idx[1]
       IN \E b \in DOMAIN nxt :
             /\ \E n \in DOMAIN nxt[b] : \E c1 \in DOMAIN nxt[b][n] :
                   /\ nxt[b][n][c1] = 1
                   /\ \A k \in DOMAIN sidx[b][n] : \A k2 \in DOMAIN nidx[b][sidx[b][n][k]] :
                         ml[b][nidx[b][sidx[b][n][k]][k2]][c1] = 0
             /\ \E n \in DOMAIN nxt[b] : \E c2 \in DOMAIN nxt[b][n] :
                   /\ nxt[b][n][c2] = 0
                   /\ \E p \in DOMAIN ml[b] : ml[b][p][c2] = 1

====
